---------------------------- MODULE Spec2Model ----------------------------
(***************************************************************************)
(* Model of custom-page-size.js: the two server-side apply operations      *)
(* (applyPageSettings, applyCustomPageSize), their helpers (applyMargins,  *)
(* saveDocumentSettings) and the document body / document properties they  *)
(* write, and the form of the dialog (setCustomPageSize) with the change   *)
(* handlers of its selects and its applySize.                              *)
(*                                                                         *)
(* Lengths.  The script works in inches with two decimals (the dialog's    *)
(* inputs have step 0.01, every table entry has at most two decimals).     *)
(* An inch value is modelled by the integer number of hundredths of an     *)
(* inch (6 in = 600, 11.69 in = 1169) and a point value by hundredths of   *)
(* a point, so that x * POINTS_PER_INCH is the script's multiplication     *)
(* (1 in = 100 -> 7200 = 72 pt, 8.5 in = 850 -> 61200 = 612 pt).           *)
(* Binary floating-point rounding of the products is not modelled.         *)
(*                                                                         *)
(* JavaScript values that can reach the validation of applyCustomPageSize  *)
(* are records [t, v]: a finite number, NaN, +Infinity, -Infinity,         *)
(* undefined (a missing argument) or a non-empty numeric string such as    *)
(* '6' (a field value sent without parseFloat).                            *)
(***************************************************************************)
EXTENDS Integers, Sequences, FiniteSets, TLC

VARIABLES
    doc,        \* the document body: page size, background colour, margins
    props,      \* document property 'kdpFormatterSettings' (<<>>: not set)
    lastCall,   \* the last server call: operation, arguments, collaborator
                \* calls it made, the error thrown inside its try block
                \* ("none" if none) and the message it returned
    form        \* the dialog: whether it is shown, and the fields its
                \* change handlers read or write

vars == <<doc, props, lastCall, form>>

(***************************************************************************)
(* CONSTANTS AND DATA                                                      *)
(***************************************************************************)
POINTS_PER_INCH == 72

COLOR_WHITE == "#FFFFFF"
COLOR_CREAM == "#F8F3E6"

MIN_WIDTH == 400
MAX_WIDTH == 850
MIN_HEIGHT == 600
MAX_HEIGHT == 1169

KDP_SIZES ==
    ("Paperback - 5 x 8" :> [width |-> 500, height |-> 800, type |-> "paperback"]) @@
    ("Paperback - 5.06 x 7.81" :> [width |-> 506, height |-> 781, type |-> "paperback"]) @@
    ("Paperback - 5.25 x 8" :> [width |-> 525, height |-> 800, type |-> "paperback"]) @@
    ("Paperback - 5.5 x 8.5" :> [width |-> 550, height |-> 850, type |-> "paperback"]) @@
    ("Paperback - 6 x 9" :> [width |-> 600, height |-> 900, type |-> "paperback"]) @@
    ("Paperback - 6.14 x 9.21" :> [width |-> 614, height |-> 921, type |-> "paperback"]) @@
    ("Paperback - 6.69 x 9.61" :> [width |-> 669, height |-> 961, type |-> "paperback"]) @@
    ("Paperback - 7 x 10" :> [width |-> 700, height |-> 1000, type |-> "paperback"]) @@
    ("Paperback - 7.44 x 9.69" :> [width |-> 744, height |-> 969, type |-> "paperback"]) @@
    ("Paperback - 7.5 x 9.25" :> [width |-> 750, height |-> 925, type |-> "paperback"]) @@
    ("Paperback - 8 x 10" :> [width |-> 800, height |-> 1000, type |-> "paperback"]) @@
    ("Paperback - 8.25 x 6" :> [width |-> 825, height |-> 600, type |-> "paperback"]) @@
    ("Paperback - 8.25 x 8.25" :> [width |-> 825, height |-> 825, type |-> "paperback"]) @@
    ("Paperback - 8.5 x 8.5" :> [width |-> 850, height |-> 850, type |-> "paperback"]) @@
    ("Paperback - 8.5 x 11" :> [width |-> 850, height |-> 1100, type |-> "paperback"]) @@
    ("Hardcover - 5 x 8" :> [width |-> 500, height |-> 800, type |-> "hardcover"]) @@
    ("Hardcover - 5.5 x 8.5" :> [width |-> 550, height |-> 850, type |-> "hardcover"]) @@
    ("Hardcover - 6 x 9" :> [width |-> 600, height |-> 900, type |-> "hardcover"]) @@
    ("Hardcover - 7 x 10" :> [width |-> 700, height |-> 1000, type |-> "hardcover"]) @@
    ("Hardcover - 8 x 10" :> [width |-> 800, height |-> 1000, type |-> "hardcover"]) @@
    ("Hardcover - 8.25 x 8.25" :> [width |-> 825, height |-> 825, type |-> "hardcover"]) @@
    ("Hardcover - 8.5 x 8.5" :> [width |-> 850, height |-> 850, type |-> "hardcover"]) @@
    ("Hardcover - 8.5 x 11" :> [width |-> 850, height |-> 1100, type |-> "hardcover"])

COMMON_SIZES ==
    ("Letter" :> [width |-> 850, height |-> 1100]) @@
    ("Legal" :> [width |-> 850, height |-> 1400]) @@
    ("Tabloid" :> [width |-> 1100, height |-> 1700]) @@
    ("A4" :> [width |-> 827, height |-> 1169]) @@
    ("A5" :> [width |-> 583, height |-> 827]) @@
    ("A3" :> [width |-> 1169, height |-> 1654]) @@
    ("Custom" :> [width |-> 0, height |-> 0])

(***************************************************************************)
(* JavaScript values and the operators the validation uses on them         *)
(***************************************************************************)
Num(n) == [t |-> "number", v |-> n]
NaN == [t |-> "NaN", v |-> 0]
PosInfinity == [t |-> "Infinity", v |-> 1]
NegInfinity == [t |-> "Infinity", v |-> -1]
Undefined == [t |-> "undefined", v |-> 0]
\* the string that is the decimal numeral of n hundredths ('6' for 600)
Str(n) == [t |-> "string", v |-> n]

\* !x : true of 0, NaN and undefined (and false of a non-empty string)
Not(x) ==
    \/ x.t = "NaN"
    \/ x.t = "undefined"
    \/ x.t = "number" /\ x.v = 0

\* x < c for a finite constant c: a numeric string converts to its number,
\* undefined converts to NaN, and every comparison with NaN is false
LessThan(x, c) ==
    \/ x.t \in {"number", "string"} /\ x.v < c
    \/ x.t = "Infinity" /\ x.v < 0

\* x > c for a finite constant c
GreaterThan(x, c) ==
    \/ x.t \in {"number", "string"} /\ x.v > c
    \/ x.t = "Infinity" /\ x.v > 0

\* a conversion to CSS pixels (96 per inch) instead of points
ToPixels(n) == n * 96

\* x * POINTS_PER_INCH for a finite number x (hundredths of an inch to
\* hundredths of a point)
ToPoints(n) == n * POINTS_PER_INCH

\* Number.prototype.toFixed(2) of a value with two decimals: the integer
\* part and the two digits after the point
ToFixed2(n) == <<n \div 100, n % 100>>

\* sizeName.replace(/^(Paperback|Hardcover) - /, '')
StripBookPrefix(sizeName) ==
    LET Tails == {"5 x 8", "5.06 x 7.81", "5.25 x 8", "5.5 x 8.5", "6 x 9",
                  "6.14 x 9.21", "6.69 x 9.61", "7 x 10", "7.44 x 9.69",
                  "7.5 x 9.25", "8 x 10", "8.25 x 6", "8.25 x 8.25",
                  "8.5 x 8.5", "8.5 x 11"}
        Matches == {tail \in Tails :
                       \E prefix \in {"Paperback", "Hardcover"} :
                           sizeName = prefix \o " - " \o tail}
    IN  IF Matches = {} THEN sizeName ELSE CHOOSE tail \in Matches : TRUE


(***************************************************************************)
(* The external collaborators.  A handler's work on them is the sequence   *)
(* of calls it makes, in program order; a call is a record naming the      *)
(* method, the object it writes ("doc", "props" or "none" for a getter)    *)
(* and, for a setter, the field and the value.  Any call may throw; a      *)
(* call that throws has no effect and ends the try block.                  *)
(***************************************************************************)
Getter(method) ==
    [method |-> method, target |-> "none", field |-> "", value |-> 0]

BodySetter(method, field, value) ==
    [method |-> method, target |-> "doc", field |-> field, value |-> value]

\* the effect of the calls of a sequence, all of them returning normally,
\* on the document body
RECURSIVE BodyAfter(_, _)
BodyAfter(body, calls) ==
    IF Len(calls) = 0 THEN body
    ELSE LET c == Head(calls)
         IN  BodyAfter(IF c.target = "doc"
                         THEN [body EXCEPT ![c.field] = c.value]
                         ELSE body,
                       Tail(calls))

\* ... and on the stored property
RECURSIVE PropertyAfter(_, _)
PropertyAfter(stored, calls) ==
    IF Len(calls) = 0 THEN stored
    ELSE LET c == Head(calls)
         IN  PropertyAfter(IF c.target = "props" THEN c.value ELSE stored,
                           Tail(calls))

MethodsOf(calls) == [i \in 1..Len(calls) |-> calls[i].method]

(***************************************************************************)
(* HELPER FUNCTIONS                                                        *)
(***************************************************************************)
\* a margin settings object has a truthy 'type' (a named variant) or the
\* four numbers top, bottom, inside, outside
HasType(marginSettings) == "type" \in DOMAIN marginSettings

AllSides(points) ==
    << BodySetter("setMarginTop", "marginTop", points),
       BodySetter("setMarginBottom", "marginBottom", points),
       BodySetter("setMarginLeft", "marginLeft", points),
       BodySetter("setMarginRight", "marginRight", points) >>

\* applyMargins with the inside margin on the right and the outside margin
\* on the left
applyMarginsOutsideLeft(marginSettings) ==
    IF HasType(marginSettings)
    THEN CASE marginSettings.type = "default" -> AllSides(ToPoints(100))
           [] marginSettings.type = "narrow" -> AllSides(ToPoints(50))
           [] marginSettings.type = "wide" -> AllSides(ToPoints(125))
           [] marginSettings.type = "mirrored" ->
                << BodySetter("setMarginTop", "marginTop", ToPoints(100)),
                   BodySetter("setMarginBottom", "marginBottom", ToPoints(100)),
                   BodySetter("setMarginLeft", "marginLeft", ToPoints(75)),
                   BodySetter("setMarginRight", "marginRight", ToPoints(125)) >>
           [] OTHER -> <<>>
    ELSE << BodySetter("setMarginTop", "marginTop",
                       ToPoints(marginSettings.top)),
            BodySetter("setMarginBottom", "marginBottom",
                       ToPoints(marginSettings.bottom)),
            BodySetter("setMarginLeft", "marginLeft",
                       ToPoints(marginSettings.inside)),
            BodySetter("setMarginRight", "marginRight",
                       ToPoints(marginSettings.outside)) >>

\* applyMargins with custom values raised to the dialog's minimum of 0.25 in
applyMarginsWithMinimum(marginSettings) ==
    LET AtLeast(n) == IF n < 25 THEN 25 ELSE n
    IN  IF HasType(marginSettings)
        THEN CASE marginSettings.type = "default" -> AllSides(ToPoints(100))
               [] marginSettings.type = "narrow" -> AllSides(ToPoints(50))
               [] marginSettings.type = "wide" -> AllSides(ToPoints(125))
               [] marginSettings.type = "mirrored" ->
                    << BodySetter("setMarginTop", "marginTop", ToPoints(100)),
                       BodySetter("setMarginBottom", "marginBottom", ToPoints(100)),
                       BodySetter("setMarginLeft", "marginLeft", ToPoints(125)),
                       BodySetter("setMarginRight", "marginRight", ToPoints(75)) >>
               [] OTHER -> <<>>
        ELSE << BodySetter("setMarginTop", "marginTop",
                           ToPoints(AtLeast(marginSettings.top))),
                BodySetter("setMarginBottom", "marginBottom",
                           ToPoints(AtLeast(marginSettings.bottom))),
                BodySetter("setMarginLeft", "marginLeft",
                           ToPoints(AtLeast(marginSettings.inside))),
                BodySetter("setMarginRight", "marginRight",
                           ToPoints(AtLeast(marginSettings.outside))) >>

\* applyMargins(body, marginSettings): the setter calls it makes
applyMargins(marginSettings) ==
    IF HasType(marginSettings)
    THEN CASE marginSettings.type = "default" -> AllSides(ToPoints(100))
           [] marginSettings.type = "narrow" -> AllSides(ToPoints(50))
           [] marginSettings.type = "wide" -> AllSides(ToPoints(125))
           [] marginSettings.type = "mirrored" ->
                << BodySetter("setMarginTop", "marginTop", ToPoints(100)),
                   BodySetter("setMarginBottom", "marginBottom", ToPoints(100)),
                   BodySetter("setMarginLeft", "marginLeft", ToPoints(125)),
                   BodySetter("setMarginRight", "marginRight", ToPoints(75)) >>
           [] OTHER -> <<>>
    ELSE << BodySetter("setMarginTop", "marginTop",
                       ToPoints(marginSettings.top)),
            BodySetter("setMarginBottom", "marginBottom",
                       ToPoints(marginSettings.bottom)),
            BodySetter("setMarginLeft", "marginLeft",
                       ToPoints(marginSettings.inside)),
            BodySetter("setMarginRight", "marginRight",
                       ToPoints(marginSettings.outside)) >>

\* the keys of the settings object, in the order the object literal gives
SettingsKeys ==
    <<"sizeName", "width", "height", "bookType", "paperType", "inkType",
      "lastUpdated">>

\* JSON.stringify of a flat object: its key/value pairs in insertion order
JSONstringify(object, keys) ==
    [i \in 1..Len(keys) |-> <<keys[i], object[keys[i]]>>]

\* saveDocumentSettings(...): the calls it makes.  The value of
\* new Date().toISOString() is not modelled beyond being a timestamp.
saveDocumentSettings(sizeName, width, height, bookType, paperType, inkType) ==
    LET settings == [sizeName |-> sizeName, width |-> width,
                     height |-> height, bookType |-> bookType,
                     paperType |-> paperType, inkType |-> inkType,
                     lastUpdated |-> "timestamp"]
    IN  << Getter("getDocumentProperties"),
           [method |-> "setProperty", target |-> "props",
            field |-> "kdpFormatterSettings",
            value |-> JSONstringify(settings, SettingsKeys)] >>

\* ApplyCalls saving the book type the table stores for the size name, when
\* it stores one, instead of the bookType argument
ApplyCallsWithStoredType(sizeName, width, height, bookType, paperType, inkType, marginSettings) ==
    << Getter("getActiveDocument"),
       Getter("getBody"),
       BodySetter("setPageWidth", "pageWidth", ToPoints(width)),
       BodySetter("setPageHeight", "pageHeight", ToPoints(height)),
       BodySetter("setBackgroundColor", "backgroundColor",
                  IF paperType = "cream" THEN COLOR_CREAM ELSE COLOR_WHITE) >>
    \o applyMargins(marginSettings)
    \o saveDocumentSettings(sizeName, width, height,
                            IF sizeName \in DOMAIN KDP_SIZES
                            THEN KDP_SIZES[sizeName].type ELSE bookType,
                            paperType, inkType)

\* lines shared by the two apply operations: get the body, set the page
\* size and the background colour, apply the margins, save the settings
ApplyCalls(sizeName, width, height, bookType, paperType, inkType, marginSettings) ==
    << Getter("getActiveDocument"),
       Getter("getBody"),
       BodySetter("setPageWidth", "pageWidth", ToPoints(width)),
       BodySetter("setPageHeight", "pageHeight", ToPoints(height)),
       BodySetter("setBackgroundColor", "backgroundColor",
                  IF paperType = "cream" THEN COLOR_CREAM ELSE COLOR_WHITE) >>
    \o applyMargins(marginSettings)
    \o saveDocumentSettings(sizeName, width, height, bookType, paperType,
                            inkType)

(***************************************************************************)
(* MAIN FUNCTIONS                                                          *)
(***************************************************************************)
\* RunCalls with a retry: a call that throws is made once more, and then
\* returns
RunCallsRetrying(op, args, calls, failAt, success) ==
    /\ failAt \in 0..Len(calls)
    /\ doc' = BodyAfter(doc, calls)
    /\ props' = PropertyAfter(props, calls)
    /\ lastCall' =
          [op |-> op, args |-> args,
           trace |-> IF failAt = 0 THEN MethodsOf(calls)
                     ELSE MethodsOf(SubSeq(calls, 1, failAt)) \o
                          MethodsOf(SubSeq(calls, failAt, Len(calls))),
           thrown |-> "none", result |-> success]

\* The try block of an apply operation from its first collaborator call on.
\* failAt = 0: every call returns and the operation returns `success`;
\* failAt = k > 0: the k-th call throws, the calls before it have taken
\* effect, and the catch block logs the error and returns "Error: " + error.
RunCalls(op, args, calls, failAt, success) ==
    /\ failAt \in 0..Len(calls)
    /\ LET done == IF failAt = 0 THEN calls ELSE SubSeq(calls, 1, failAt - 1)
           invoked == IF failAt = 0 THEN calls ELSE SubSeq(calls, 1, failAt)
       IN  /\ doc' = BodyAfter(doc, done)
           /\ props' = PropertyAfter(props, done)
           /\ lastCall' =
                 IF failAt = 0
                 THEN [op |-> op, args |-> args, trace |-> MethodsOf(invoked),
                       thrown |-> "none", result |-> success]
                 ELSE [op |-> op, args |-> args,
                       trace |-> MethodsOf(invoked) \o <<"Logger.log">>,
                       thrown |-> "Exception",
                       result |-> <<"Error: ", "Exception">>]

\* The try block when every collaborator call that is made returns but the
\* return expression then throws `error`: all the calls have taken effect,
\* and the catch block logs the error and returns "Error: " + error.  A
\* collaborator call that throws (failAt > 0) ends the block earlier, as in
\* RunCalls.
RunCallsThenThrow(op, args, calls, failAt, error) ==
    IF failAt = 0
    THEN /\ doc' = BodyAfter(doc, calls)
         /\ props' = PropertyAfter(props, calls)
         /\ lastCall' = [op |-> op, args |-> args,
                         trace |-> MethodsOf(calls) \o <<"Logger.log">>,
                         thrown |-> error,
                         result |-> <<"Error: ", error>>]
    ELSE RunCalls(op, args, calls, failAt, <<>>)

\* table[key]: the entry, or undefined when the table has no such key
Get(table, key) == IF key \in DOMAIN table THEN table[key] ELSE Undefined

\* LookupSize falling back to the 'Custom' entry for a name in neither table
LookupSizeOrCustom(sizeName) ==
    IF Get(KDP_SIZES, sizeName) /= Undefined THEN Get(KDP_SIZES, sizeName)
    ELSE IF Get(COMMON_SIZES, sizeName) /= Undefined
         THEN Get(COMMON_SIZES, sizeName)
         ELSE COMMON_SIZES["Custom"]

\* the entry the lookup of applyPageSettings reads width and height from:
\* KDP_SIZES[sizeName] if there is one, else COMMON_SIZES[sizeName]
LookupSize(sizeName) ==
    IF Get(KDP_SIZES, sizeName) /= Undefined THEN Get(KDP_SIZES, sizeName)
    ELSE Get(COMMON_SIZES, sizeName)

applyPageSettings(sizeName, bookType, paperType, inkType, marginSettings, failAt) ==
    LET args == [sizeName |-> sizeName, bookType |-> bookType,
                 paperType |-> paperType, inkType |-> inkType,
                 marginSettings |-> marginSettings]
    IN  IF LookupSize(sizeName) = Undefined
        THEN \* reading .width of undefined throws a TypeError before any
             \* collaborator is called; the catch block logs and returns it
             /\ failAt = 0
             /\ lastCall' = [op |-> "applyPageSettings", args |-> args,
                             trace |-> <<"Logger.log">>,
                             thrown |-> "TypeError",
                             result |-> <<"Error: ", "TypeError">>]
             /\ UNCHANGED <<doc, props>>
        ELSE LET widthInches == LookupSize(sizeName).width
                 heightInches == LookupSize(sizeName).height
             IN  RunCalls("applyPageSettings", args,
                          ApplyCalls(sizeName, widthInches, heightInches,
                                     bookType, paperType, inkType,
                                     marginSettings),
                          failAt,
                          <<"Page size set to ", StripBookPrefix(sizeName),
                            " (", widthInches, "\" x ", heightInches,
                            "\") as ", bookType, " with ", paperType,
                            " paper and ", inkType, " ink.">>)

\* the validation with exclusive bounds
InvalidDimensionsAtBounds(widthInches, heightInches) ==
    \/ Not(widthInches)
    \/ Not(heightInches)
    \/ ~GreaterThan(widthInches, MIN_WIDTH)
    \/ ~LessThan(widthInches, MAX_WIDTH)
    \/ ~GreaterThan(heightInches, MIN_HEIGHT)
    \/ ~LessThan(heightInches, MAX_HEIGHT)

\* the server-side validation of applyCustomPageSize: TRUE when the
\* dimensions are refused
InvalidDimensions(widthInches, heightInches) ==
    \/ Not(widthInches)
    \/ Not(heightInches)
    \/ LessThan(widthInches, MIN_WIDTH)
    \/ GreaterThan(widthInches, MAX_WIDTH)
    \/ LessThan(heightInches, MIN_HEIGHT)
    \/ GreaterThan(heightInches, MAX_HEIGHT)

\* a message that names the bound that was violated
BoundMessage(widthInches, heightInches) ==
    IF Not(widthInches) \/ Not(heightInches)
    THEN <<"Error: ", "Width and height are required.">>
    ELSE IF LessThan(widthInches, MIN_WIDTH)
    THEN <<"Error: ", "Width must be at least ", MIN_WIDTH, "\".">>
    ELSE IF GreaterThan(widthInches, MAX_WIDTH)
    THEN <<"Error: ", "Width must be at most ", MAX_WIDTH, "\".">>
    ELSE IF LessThan(heightInches, MIN_HEIGHT)
    THEN <<"Error: ", "Height must be at least ", MIN_HEIGHT, "\".">>
    ELSE <<"Error: ", "Height must be at most ", MAX_HEIGHT, "\".">>

\* the message returned for refused dimensions
InvalidDimensionsMessage(widthInches, heightInches) ==
    <<"Error: ", "Invalid dimensions. Width must be between ", MIN_WIDTH,
      "\" and ", MAX_WIDTH, "\", and height between ", MIN_HEIGHT,
      "\" and ", MAX_HEIGHT, "\".">>

\* x.toFixed exists: x is a number, not a string
HasToFixed(x) == x.t = "number"

\* what JSON.stringify writes for a dimension: the number, or the string
\* as it was passed
JSONdimension(x) == IF x.t = "string" THEN x ELSE x.v

\* The calls of applyCustomPageSize.  The setters get the products
\* widthInches * POINTS_PER_INCH and heightInches * POINTS_PER_INCH, which
\* are numbers also for numeric strings; saveDocumentSettings gets the
\* arguments themselves.
CustomCalls(widthInches, heightInches, bookType, paperType, inkType, marginSettings) ==
    LET calls == ApplyCalls("Custom", widthInches.v, heightInches.v,
                            bookType, paperType, inkType, marginSettings)
        Passed(pair) ==
            IF pair[1] = "width" THEN <<"width", JSONdimension(widthInches)>>
            ELSE IF pair[1] = "height"
                 THEN <<"height", JSONdimension(heightInches)>>
                 ELSE pair
    IN  [i \in 1..Len(calls) |->
            IF calls[i].method = "setProperty"
            THEN [calls[i] EXCEPT
                     !.value = [j \in 1..Len(@) |-> Passed(@[j])]]
            ELSE calls[i]]

\* applyCustomPageSize setting the page size before it validates the
\* dimensions
applyCustomPageSizeValidatingLate(widthInches, heightInches, bookType, paperType, inkType, marginSettings, failAt) ==
    LET args == [widthInches |-> widthInches, heightInches |-> heightInches,
                 bookType |-> bookType, paperType |-> paperType,
                 inkType |-> inkType, marginSettings |-> marginSettings]
    IN  IF InvalidDimensions(widthInches, heightInches)
        THEN /\ failAt = 0
             /\ doc' = [doc EXCEPT !.pageWidth = ToPoints(widthInches.v),
                                   !.pageHeight = ToPoints(heightInches.v)]
             /\ lastCall' = [op |-> "applyCustomPageSize", args |-> args,
                             trace |-> <<"getActiveDocument", "getBody",
                                         "setPageWidth", "setPageHeight">>,
                             thrown |-> "none",
                             result |-> InvalidDimensionsMessage(widthInches,
                                                                 heightInches)]
             /\ UNCHANGED props
        ELSE IF HasToFixed(widthInches) /\ HasToFixed(heightInches)
        THEN RunCalls("applyCustomPageSize", args,
                      CustomCalls(widthInches, heightInches, bookType,
                                  paperType, inkType, marginSettings),
                      failAt,
                      <<"Custom page size set to ", ToFixed2(widthInches.v),
                        "\" x ", ToFixed2(heightInches.v), "\" as ", bookType,
                        " with ", paperType, " paper and ", inkType,
                        " ink.">>)
        ELSE RunCallsThenThrow("applyCustomPageSize", args,
                               CustomCalls(widthInches, heightInches,
                                           bookType, paperType, inkType,
                                           marginSettings),
                               failAt, "TypeError")

applyCustomPageSize(widthInches, heightInches, bookType, paperType, inkType, marginSettings, failAt) ==
    LET args == [widthInches |-> widthInches, heightInches |-> heightInches,
                 bookType |-> bookType, paperType |-> paperType,
                 inkType |-> inkType, marginSettings |-> marginSettings]
    IN  IF InvalidDimensions(widthInches, heightInches)
        THEN /\ failAt = 0
             /\ lastCall' = [op |-> "applyCustomPageSize", args |-> args,
                             trace |-> <<>>, thrown |-> "none",
                             result |-> InvalidDimensionsMessage(widthInches,
                                                                 heightInches)]
             /\ UNCHANGED <<doc, props>>
        ELSE IF HasToFixed(widthInches) /\ HasToFixed(heightInches)
        THEN RunCalls("applyCustomPageSize", args,
                      CustomCalls(widthInches, heightInches, bookType,
                                  paperType, inkType, marginSettings),
                      failAt,
                      <<"Custom page size set to ", ToFixed2(widthInches.v),
                        "\" x ", ToFixed2(heightInches.v), "\" as ", bookType,
                        " with ", paperType, " paper and ", inkType,
                        " ink.">>)
        ELSE RunCallsThenThrow("applyCustomPageSize", args,
                               CustomCalls(widthInches, heightInches,
                                           bookType, paperType, inkType,
                                           marginSettings),
                               failAt, "TypeError")

(***************************************************************************)
(* The dialog.  form holds the fields that the change handlers of bookSize *)
(* and bookType read or write: the selected book size, the display style   *)
(* of the custom fields, the selected book type and ink type, and the      *)
(* disabled attribute of the ink option 'standard'.  The other fields      *)
(* (paper type, margins, custom width and height) are written by the user  *)
(* only and read by applySize only; applySize draws their contents.        *)
(***************************************************************************)
\* the option values of the bookSize select
BookSizeOptions == {""} \cup DOMAIN KDP_SIZES \cup DOMAIN COMMON_SIZES

\* value.startsWith(prefix) for an option value of the bookSize select and
\* prefix 'Paperback' or 'Hardcover': the options that begin with either
\* word are the keys of KDP_SIZES, "<word> - <dimensions>"
StartsWith(value, prefix) ==
    \E key \in DOMAIN KDP_SIZES :
        value = key /\ key = prefix \o " - " \o StripBookPrefix(key)

\* the form as the HTML declares it: every select shows its first option,
\* the custom fields are hidden and no option is disabled
FormAsRendered ==
    [open |-> TRUE, bookSize |-> "", customFields |-> "none",
     bookType |-> "paperback", inkType |-> "black",
     standardDisabled |-> FALSE]

\* no dialog is shown
NoDialog == [FormAsRendered EXCEPT !.open = FALSE]

\* updateInkOptions disabling the option without changing the selection
updateInkOptionsKeepingInk(f) ==
    [f EXCEPT !.standardDisabled = (f.bookType = "hardcover")]

\* updateInkOptions(): the form after it has run on form f
updateInkOptions(f) ==
    IF f.bookType = "hardcover"
    THEN [f EXCEPT !.standardDisabled = TRUE,
                   !.inkType = IF @ = "standard" THEN "premium" ELSE @]
    ELSE [f EXCEPT !.standardDisabled = FALSE]

\* the change listener of bookSize, run with the newly selected value
bookSizeChange(f, value) ==
    LET shown == [f EXCEPT !.bookSize = value,
                           !.customFields = IF value = "Custom" THEN "block"
                                            ELSE "none"]
    IN  IF StartsWith(value, "Hardcover")
        THEN updateInkOptions([shown EXCEPT !.bookType = "hardcover"])
        ELSE IF StartsWith(value, "Paperback")
             THEN updateInkOptions([shown EXCEPT !.bookType = "paperback"])
             ELSE shown

(***************************************************************************)
(* The state machine                                                       *)
(***************************************************************************)
\* the document as it is opened: a new Letter document with 1 inch margins
\* and no settings saved yet
Init ==
    /\ doc = [pageWidth |-> ToPoints(850), pageHeight |-> ToPoints(1100),
              backgroundColor |-> COLOR_WHITE,
              marginTop |-> ToPoints(100), marginBottom |-> ToPoints(100),
              marginLeft |-> ToPoints(100), marginRight |-> ToPoints(100)]
    /\ props = <<>>
    /\ lastCall = [op |-> "none", args |-> <<>>, trace |-> <<>>,
                   thrown |-> "none", result |-> <<>>]
    /\ form = NoDialog

\* a call from the dialog or from any other client of the script; the
\* inputs are drawn from the sets the specification names.  options is a
\* set of <<bookType, paperType, inkType>>; failPoints says which
\* collaborator call may throw (0: none).
CallApplyPageSettings(sizeNames, options, margins, failPoints) ==
    \E sizeName \in sizeNames, o \in options, marginSettings \in margins,
       failAt \in failPoints :
        /\ applyPageSettings(sizeName, o[1], o[2], o[3], marginSettings,
                             failAt)
        /\ UNCHANGED form

CallApplyCustomPageSize(dimensions, options, margins, failPoints) ==
    \E d \in dimensions, o \in options, marginSettings \in margins,
       failAt \in failPoints :
        /\ applyCustomPageSize(d[1], d[2], o[1], o[2], o[3], marginSettings,
                               failAt)
        /\ UNCHANGED form

BookTypes == {"paperback", "hardcover"}
InkTypes == {"black", "premium", "standard"}

\* an apply operation makes at most 11 collaborator calls
FailPoints == 0..11

\* the menu item opens the dialog; its script ends with updateInkOptions()
setCustomPageSize ==
    /\ ~form.open
    /\ form' = updateInkOptions(FormAsRendered)
    /\ UNCHANGED <<doc, props, lastCall>>

\* the user selects another book size: the change event of bookSize
SelectBookSize ==
    /\ form.open
    /\ \E value \in BookSizeOptions \ {form.bookSize} :
           form' = bookSizeChange(form, value)
    /\ UNCHANGED <<doc, props, lastCall>>

\* the user selects the other book type: the change event of bookType,
\* whose listener is updateInkOptions
ChangeBookType ==
    /\ form.open
    /\ \E value \in BookTypes \ {form.bookType} :
           form' = updateInkOptions([form EXCEPT !.bookType = value])
    /\ UNCHANGED <<doc, props, lastCall>>

\* the user selects another ink type; a disabled option cannot be selected
SelectInkType ==
    /\ form.open
    /\ \E value \in InkTypes \ {form.inkType} :
           /\ ~(value = "standard" /\ form.standardDisabled)
           /\ form' = [form EXCEPT !.inkType = value]
    /\ UNCHANGED <<doc, props, lastCall>>

\* the Apply button.  width and height are parseFloat of the custom
\* fields (NaN for an empty field) and go through the same test as in
\* applyCustomPageSize before anything is sent.  A request runs on the
\* server and its result, success or error message, goes to onSuccess,
\* which closes the dialog; an alert leaves the form as it is.
applySize(paperTypes, margins, dimensions, failPoints) ==
    /\ form.open
    /\ \E paperType \in paperTypes, marginSettings \in margins,
          d \in dimensions, failAt \in failPoints :
           IF form.bookSize = "Custom"
           THEN IF InvalidDimensions(d[1], d[2])
                THEN UNCHANGED vars
                ELSE /\ applyCustomPageSize(d[1], d[2], form.bookType,
                                            paperType, form.inkType,
                                            marginSettings, failAt)
                     /\ form' = NoDialog
           ELSE IF form.bookSize /= ""
                THEN /\ applyPageSettings(form.bookSize, form.bookType,
                                          paperType, form.inkType,
                                          marginSettings, failAt)
                     /\ form' = NoDialog
                ELSE UNCHANGED vars

(***************************************************************************)
(* Spec: both operations, any collaborator call may throw.  Inputs: a      *)
(* hardcover preset, the 'Custom' entry of COMMON_SIZES and a name that is *)
(* in neither table; accepted and refused custom dimensions.               *)
(***************************************************************************)
SizeNameInputs == {"Hardcover - 6 x 9", "Custom", "Executive"}
DimensionInputs == {<<Num(400), Num(1169)>>, <<Num(390), Num(900)>>}
OptionInputs ==
    {<<"paperback", "white", "black">>, <<"hardcover", "cream", "standard">>}
MarginInputs == {[type |-> "mirrored"]}

Next ==
    \/ CallApplyPageSettings(SizeNameInputs, OptionInputs, MarginInputs,
                             FailPoints)
    \/ CallApplyCustomPageSize(DimensionInputs, OptionInputs, MarginInputs,
                               FailPoints)

Spec == Init /\ [][Next]_vars

(***************************************************************************)
(* What the properties read off the state                                  *)
(***************************************************************************)
\* settings have been saved
Saved == Len(props) > 0

\* the value saved under a key of the settings record
Persisted(key) ==
    LET i == CHOOSE i \in 1..Len(props) : props[i][1] = key
    IN  props[i][2]

\* a returned message that begins "Error: "
IsError(message) == Len(message) > 0 /\ message[1] = "Error: "

\* the last call ran to its end and returned its success message
Succeeded == lastCall.op /= "none" /\ ~IsError(lastCall.result)

NoSuchPreset(sizeName) ==
    sizeName \notin (DOMAIN KDP_SIZES \cup DOMAIN COMMON_SIZES)

NoRepeats(seq) ==
    \A i, j \in 1..Len(seq) : seq[i] = seq[j] => i = j

(***************************************************************************)
(* C1.  Whenever the saved settings record has sizeName 'Custom', its      *)
(* width is in [4, 8.5] and its height in [6, 11.69], and the page size    *)
(* written with it is 72 times that width and height.                      *)
(* Refuted by applyPageSettings('Custom', ...), which saves the 0 x 0      *)
(* entry of COMMON_SIZES under the name 'Custom'.                          *)
(***************************************************************************)
C1_CustomRecordWithinBounds ==
    (Saved /\ Persisted("sizeName") = "Custom") =>
        /\ Persisted("width") \in MIN_WIDTH..MAX_WIDTH
        /\ Persisted("height") \in MIN_HEIGHT..MAX_HEIGHT
        /\ Succeeded =>
              /\ doc.pageWidth = POINTS_PER_INCH * Persisted("width")
              /\ doc.pageHeight = POINTS_PER_INCH * Persisted("height")

C7_NoHardcoverWithStandardInk ==
    Saved =>
        ~(Persisted("bookType") = "hardcover" /\ Persisted("inkType") = "standard")

(***************************************************************************)
(* C10.  An error thrown inside an apply operation (by a collaborator      *)
(* call, at any step) is returned as the message "Error: " followed by the *)
(* error; no collaborator call is made twice (nothing is retried); and     *)
(* after an operation that returned an error an apply operation can still  *)
(* return a success message.                                               *)
(***************************************************************************)
C10_FailureIsReturnedAsError ==
    /\ lastCall.thrown /= "none" =>
          /\ IsError(lastCall.result)
          /\ Len(lastCall.result) = 2
          /\ lastCall.result[2] = lastCall.thrown
    /\ lastCall.op /= "none" => Len(lastCall.result) > 0
    /\ NoRepeats(lastCall.trace)
    /\ IsError(lastCall.result) => ENABLED (Next /\ ~IsError(lastCall'.result))

\* the last of the collaborator calls, setProperty, threw after settings
\* had been saved by an earlier operation: the body has the new page size,
\* the saved settings are the earlier ones, and the error was returned
C10_Witness ==
    /\ lastCall.op = "applyCustomPageSize"
    /\ lastCall.thrown = "Exception"
    /\ lastCall.result = <<"Error: ", "Exception">>
    /\ Len(lastCall.trace) = 12
    /\ lastCall.trace[11] = "setProperty"
    /\ doc.pageWidth = ToPoints(400)
    /\ Saved
    /\ Persisted("sizeName") = "Hardcover - 6 x 9"

(***************************************************************************)
(* SpecPresets: applyPageSettings with every size name of the two tables   *)
(* (and one that is in neither), every book type and ink type; the         *)
(* collaborators do not throw.                                             *)
(***************************************************************************)
PresetNames == DOMAIN KDP_SIZES \cup DOMAIN COMMON_SIZES

PresetOptionInputs ==
    {<<bookType, "white", inkType>> : bookType \in BookTypes, inkType \in InkTypes}

NextPresets ==
    CallApplyPageSettings(PresetNames \cup {"Executive"}, PresetOptionInputs,
                          {[type |-> "default"]}, {0})

SpecPresets == Init /\ [][NextPresets]_vars

(***************************************************************************)
(* C4.  For every preset name of KDP_SIZES or COMMON_SIZES,                *)
(* applyPageSettings sets the page width and height to 72 times the stored *)
(* width and height (1 in -> 72, 8.5 in -> 612) and saves the stored width *)
(* and height as they are; 'Paperback - 6 x 9' with margins 'default'      *)
(* gives 6 x 9 in (432 x 648 points) and four margins of 1 in (72 points). *)
(***************************************************************************)
C4_PresetSizeIsApplied ==
    (lastCall.op = "applyPageSettings" /\ Succeeded) =>
        LET name == lastCall.args.sizeName
            stored == IF name \in DOMAIN KDP_SIZES THEN KDP_SIZES[name]
                      ELSE COMMON_SIZES[name]
        IN  /\ name \in PresetNames
            /\ doc.pageWidth = 72 * stored.width
            /\ doc.pageHeight = 72 * stored.height
            /\ Persisted("sizeName") = name
            /\ Persisted("width") = stored.width
            /\ Persisted("height") = stored.height
            /\ stored.width = 850 => doc.pageWidth = 61200
            /\ (name = "Paperback - 6 x 9" /\ lastCall.args.marginSettings = [type |-> "default"]) =>
                  /\ Persisted("width") = 600 /\ Persisted("height") = 900
                  /\ doc.pageWidth = 43200 /\ doc.pageHeight = 64800
                  /\ doc.marginTop = 7200 /\ doc.marginBottom = 7200
                  /\ doc.marginLeft = 7200 /\ doc.marginRight = 7200

\* 'Paperback - 6 x 9' has been applied with the default margins after a
\* size with another width
C4_Witness ==
    /\ lastCall.op = "applyPageSettings"
    /\ Succeeded
    /\ lastCall.args.sizeName = "Paperback - 6 x 9"
    /\ lastCall.args.marginSettings = [type |-> "default"]
    /\ doc.pageWidth = 43200
    /\ Persisted("height") = 900

(***************************************************************************)
(* C6 as claimed.  For every name of KDP_SIZES the book type saved and     *)
(* reported by applyPageSettings is the type stored for the name, whatever *)
(* bookType argument was passed.                                           *)
(***************************************************************************)
C6_BookTypeIsStoredType ==
    (/\ lastCall.op = "applyPageSettings"
     /\ Succeeded
     /\ lastCall.args.sizeName \in DOMAIN KDP_SIZES) =>
        /\ Persisted("bookType") = KDP_SIZES[lastCall.args.sizeName].type
        /\ lastCall.result[8] = KDP_SIZES[lastCall.args.sizeName].type

(***************************************************************************)
(* C6 as amended.  For every name of KDP_SIZES the book type saved and     *)
(* reported by applyPageSettings is the bookType argument, whatever type   *)
(* the table stores for the name.                                          *)
(***************************************************************************)
C6_BookTypeIsArgument ==
    (/\ lastCall.op = "applyPageSettings"
     /\ Succeeded
     /\ lastCall.args.sizeName \in DOMAIN KDP_SIZES) =>
        /\ Persisted("bookType") = lastCall.args.bookType
        /\ lastCall.result[8] = lastCall.args.bookType

\* a hardcover preset applied with the bookType argument 'paperback'
C6_Witness ==
    /\ lastCall.op = "applyPageSettings"
    /\ Succeeded
    /\ lastCall.args.sizeName = "Hardcover - 6 x 9"
    /\ lastCall.args.bookType = "paperback"
    /\ Persisted("bookType") = "paperback"

(***************************************************************************)
(* SpecCustom: applyCustomPageSize with widths and heights at, just inside *)
(* and just outside each bound, zero, NaN, the infinities and a missing    *)
(* value; the collaborators do not throw.                                  *)
(***************************************************************************)
WidthInputs ==
    {Num(390), Num(400), Num(850), Num(860), Num(0), NaN, Undefined,
     PosInfinity, NegInfinity}
HeightInputs ==
    {Num(599), Num(600), Num(1169), Num(1170), Num(0), NaN, Undefined,
     PosInfinity, NegInfinity}

NextCustom ==
    CallApplyCustomPageSize(WidthInputs \X HeightInputs,
                            {<<"paperback", "cream", "black">>},
                            {[type |-> "narrow"]}, {0})

SpecCustom == Init /\ [][NextCustom]_vars

\* both values are finite numbers, 4 <= width <= 8.5 and 6 <= height <= 11.69
WithinBounds(widthInches, heightInches) ==
    /\ widthInches.t = "number" /\ heightInches.t = "number"
    /\ 400 <= widthInches.v /\ widthInches.v <= 850
    /\ 600 <= heightInches.v /\ heightInches.v <= 1169

\* the last call was applyCustomPageSize and it refused its dimensions
Refused(call) ==
    /\ call.op = "applyCustomPageSize"
    /\ call.thrown = "none"
    /\ IsError(call.result)

\* the bounds a pair of dimensions violates
ViolatedBounds(widthInches, heightInches) ==
    {b \in {"width below minimum", "width above maximum",
            "height below minimum", "height above maximum"} :
        \/ b = "width below minimum" /\ LessThan(widthInches, 400)
        \/ b = "width above maximum" /\ GreaterThan(widthInches, 850)
        \/ b = "height below minimum" /\ LessThan(heightInches, 600)
        \/ b = "height above maximum" /\ GreaterThan(heightInches, 1169)}

(***************************************************************************)
(* C2.  applyCustomPageSize passes its validation if and only if both      *)
(* values are finite numbers with 4 <= width <= 8.5 and 6 <= height <=     *)
(* 11.69, the bounds included: otherwise it returns the validation error   *)
(* without calling a collaborator, and a pair that passes is applied (page *)
(* size set, settings saved, success message) unless a collaborator call   *)
(* throws.                                                                 *)
(***************************************************************************)
C2_AcceptedIffWithinBounds ==
    lastCall.op = "applyCustomPageSize" =>
        LET w == lastCall.args.widthInches
            h == lastCall.args.heightInches
        IN  /\ Refused(lastCall) <=> ~WithinBounds(w, h)
            /\ Refused(lastCall) => lastCall.trace = <<>>
            /\ (WithinBounds(w, h) /\ lastCall.thrown = "none") =>
                  /\ lastCall.result[1] = "Custom page size set to "
                  /\ doc.pageWidth = 72 * w.v
                  /\ doc.pageHeight = 72 * h.v
                  /\ Persisted("width") = w.v
                  /\ Persisted("height") = h.v

\* the largest accepted size has been applied
C2_Witness ==
    /\ lastCall.op = "applyCustomPageSize"
    /\ lastCall.args.widthInches = Num(850)
    /\ lastCall.args.heightInches = Num(1169)
    /\ Succeeded
    /\ doc.pageWidth = 61200

(***************************************************************************)
(* C3 as claimed.  Two refusals caused by different violated bounds return *)
(* different errors: the error identifies the bound that was violated.     *)
(***************************************************************************)
C3_ErrorIdentifiesBound ==
    [][(/\ Refused(lastCall)
        /\ Refused(lastCall')
        /\ ViolatedBounds(lastCall.args.widthInches, lastCall.args.heightInches)
           /= ViolatedBounds(lastCall'.args.widthInches, lastCall'.args.heightInches))
       => lastCall'.result /= lastCall.result]_vars

(***************************************************************************)
(* C3 as amended.  Every refusal returns the same message, "Error: Invalid *)
(* dimensions. Width must be between 4" and 8.5", and height between 6"    *)
(* and 11.69".", which states the four bounds and not the one violated.    *)
(***************************************************************************)
C3_OneMessageForEveryRefusal ==
    Refused(lastCall) =>
        lastCall.result =
            <<"Error: ", "Invalid dimensions. Width must be between ", 400,
              "\" and ", 850, "\", and height between ", 600, "\" and ", 1169,
              "\".">>

\* a pair refused for its height alone, above the maximum
C3_Witness ==
    /\ Refused(lastCall)
    /\ ViolatedBounds(lastCall.args.widthInches, lastCall.args.heightInches)
       = {"height above maximum"}

(***************************************************************************)
(* SpecMargins: both operations with every margin selection: the four      *)
(* named variants, a type that is none of them, and custom values from 0   *)
(* to more than the page is wide; the collaborators do not throw.          *)
(***************************************************************************)
\* custom margin values are 0, 4.5 in, 9 in, ... : MaxMarginSteps steps
MaxMarginSteps == 2

CustomMarginValues == {k * 450 : k \in 0..MaxMarginSteps}

MarginSelections ==
    {[type |-> t] : t \in {"default", "narrow", "wide", "mirrored", "gutter"}}
    \cup [top : CustomMarginValues, bottom : CustomMarginValues,
          inside : CustomMarginValues, outside : CustomMarginValues]

NextMargins ==
    \/ CallApplyPageSettings({"Paperback - 6 x 9"},
                             {<<"paperback", "white", "black">>},
                             MarginSelections, {0})
    \/ CallApplyCustomPageSize({<<Num(850), Num(600)>>},
                               {<<"paperback", "white", "black">>},
                               MarginSelections, {0})

SpecMargins == Init /\ [][NextMargins]_vars

\* the margin selection of the last call, which ran to its end
MarginsApplied(marginSettings) ==
    /\ Succeeded
    /\ lastCall.args.marginSettings = marginSettings

\* the four margins of the document, in points
MarginsAre(top, bottom, left, right) ==
    /\ doc.marginTop = top * 100
    /\ doc.marginBottom = bottom * 100
    /\ doc.marginLeft = left * 100
    /\ doc.marginRight = right * 100

(***************************************************************************)
(* C8.  A named margin variant sets the four margins to fixed values,      *)
(* whatever they were: 'default' 1 in on all four edges (72 points),       *)
(* 'narrow' 0.5 in (36), 'wide' 1.25 in (90), 'mirrored' top 1, bottom 1,  *)
(* left (inside) 1.25 and right (outside) 0.75 in (72, 72, 90, 54).        *)
(***************************************************************************)
C8_NamedMarginsAreFixed ==
    /\ MarginsApplied([type |-> "default"]) => MarginsAre(72, 72, 72, 72)
    /\ MarginsApplied([type |-> "narrow"]) => MarginsAre(36, 36, 36, 36)
    /\ MarginsApplied([type |-> "wide"]) => MarginsAre(90, 90, 90, 90)
    /\ MarginsApplied([type |-> "mirrored"]) => MarginsAre(72, 72, 90, 54)

\* the mirrored margins have been applied by applyCustomPageSize
C8_Witness ==
    /\ lastCall.op = "applyCustomPageSize"
    /\ MarginsApplied([type |-> "mirrored"])
    /\ doc.marginLeft = 9000
    /\ doc.marginRight = 5400

(***************************************************************************)
(* C9.  A custom margin selection (no type) is passed through as it is:    *)
(* the top, bottom, left and right margins become 72 times the top,        *)
(* bottom, inside and outside values, with no lower or upper bound and no  *)
(* check against the page width or height.                                 *)
(***************************************************************************)
C9_CustomMarginsPassThrough ==
    (Succeeded /\ ~HasType(lastCall.args.marginSettings)) =>
        /\ doc.marginTop = 72 * lastCall.args.marginSettings.top
        /\ doc.marginBottom = 72 * lastCall.args.marginSettings.bottom
        /\ doc.marginLeft = 72 * lastCall.args.marginSettings.inside
        /\ doc.marginRight = 72 * lastCall.args.marginSettings.outside

\* custom margins applied with a top margin of 0 and left and right margins
\* that are each wider than the page
C9_Witness ==
    /\ Succeeded
    /\ ~HasType(lastCall.args.marginSettings)
    /\ lastCall.args.marginSettings.top = 0
    /\ doc.marginTop = 0
    /\ doc.marginLeft > doc.pageWidth
    /\ doc.marginRight > doc.pageWidth
(***************************************************************************)
(* SpecDialog: the dialog is opened, its selects are changed in any order  *)
(* and Apply is pressed; every option of the bookSize select can be        *)
(* selected.  The custom fields hold 6 x 9 in, or the width is left empty. *)
(***************************************************************************)
DialogDimensions == {<<Num(600), Num(900)>>, <<NaN, Num(900)>>}

NextDialog ==
    \/ setCustomPageSize
    \/ SelectBookSize
    \/ ChangeBookType
    \/ SelectInkType
    \/ applySize({"white"}, {[type |-> "default"]}, DialogDimensions, {0})

SpecDialog == Init /\ [][NextDialog]_vars

\* the form shows book type 'hardcover' with ink type 'standard'
HardcoverWithStandard(f) == f.bookType = "hardcover" /\ f.inkType = "standard"

(***************************************************************************)
(* C11.  In the dialog the form never holds book type 'hardcover' with ink *)
(* type 'standard': the option 'standard' is disabled exactly while the    *)
(* book type is 'hardcover'; a step that makes the book type 'hardcover',  *)
(* by the bookType select or by a 'Hardcover' book size, turns a selected  *)
(* 'standard' into 'premium' and leaves any other ink as it is; and no     *)
(* request sent by applySize carries 'hardcover' with 'standard'.          *)
(***************************************************************************)
C11_DialogNeverHoldsHardcoverWithStandard ==
    /\ [](/\ ~HardcoverWithStandard(form)
          /\ form.standardDisabled <=> form.bookType = "hardcover"
          /\ lastCall.op /= "none" => ~HardcoverWithStandard(lastCall.args))
    /\ [][(form.open /\ form'.open /\ form.bookType = "paperback"
               /\ form'.bookType = "hardcover") =>
             form'.inkType = IF form.inkType = "standard" THEN "premium"
                             ELSE form.inkType]_vars

\* a request for a common size was sent with book type 'hardcover' and
\* ink 'premium', and in the dialog opened after it a 'Hardcover' book
\* size is selected, 'premium' is selected and 'standard' is disabled
C11_Witness ==
    /\ lastCall.op = "applyPageSettings"
    /\ lastCall.args.sizeName = "Letter"
    /\ lastCall.args.bookType = "hardcover"
    /\ lastCall.args.inkType = "premium"
    /\ form.open
    /\ StartsWith(form.bookSize, "Hardcover")
    /\ form.bookType = "hardcover"
    /\ form.inkType = "premium"
    /\ form.standardDisabled
(***************************************************************************)
(* SpecUnparsed: the apply operations called by a client that may send the *)
(* custom width as the text of its field ('6') instead of the number; any  *)
(* collaborator call may throw.                                            *)
(***************************************************************************)
UnparsedDimensionInputs ==
    {<<Num(600), Num(900)>>, <<Str(600), Num(900)>>, <<Num(390), Num(900)>>}

NextUnparsed ==
    \/ CallApplyPageSettings({"Letter", "Executive"}, OptionInputs,
                             MarginInputs, FailPoints)
    \/ CallApplyCustomPageSize(UnparsedDimensionInputs, OptionInputs,
                               MarginInputs, FailPoints)

SpecUnparsed == Init /\ [][NextUnparsed]_vars

\* the setters that every apply operation calls on the document body
\* (applyMargins calls its four setters unless the margin type is unknown)
PageSetters == {"setPageWidth", "setPageHeight", "setBackgroundColor"}

\* the settings record made of the arguments of a call: the size name
\* ('Custom' for applyCustomPageSize), the width and height (those of the
\* table for applyPageSettings), the book, paper and ink type, and the time
SettingsOf(call) ==
    LET a == call.args
        fromTable == call.op = "applyPageSettings"
    IN  << <<"sizeName", IF fromTable THEN a.sizeName ELSE "Custom">>,
           <<"width", IF fromTable THEN LookupSize(a.sizeName).width
                      ELSE a.widthInches.v>>,
           <<"height", IF fromTable THEN LookupSize(a.sizeName).height
                       ELSE a.heightInches.v>>,
           <<"bookType", a.bookType>>,
           <<"paperType", a.paperType>>,
           <<"inkType", a.inkType>>,
           <<"lastUpdated", "timestamp">> >>

C13_RefusalTouchesNothing ==
    [][Refused(lastCall') =>
          /\ Len(lastCall'.trace) = 0
          /\ doc' = doc
          /\ props' = props]_vars

\* dimensions were refused after a hardcover preset had been applied and
\* saved: the page, the mirrored margins and the record are still those
C13_Witness ==
    /\ Refused(lastCall)
    /\ lastCall.args.widthInches = Num(390)
    /\ doc.pageWidth = ToPoints(600)
    /\ doc.pageHeight = ToPoints(900)
    /\ doc.marginLeft = 9000
    /\ Saved
    /\ Persisted("sizeName") = "Hardcover - 6 x 9"
=============================================================================
